---- MODULE Spec2Model ----
(***************************************************************************)
(* Connection pools, the pool registry, database connections, queries and *)
(* the lifecycle bus of dbc (server/src/pool.rs, server/src/lib.rs,        *)
(* server/src/server/routes.rs, server/src/db.rs, server/src/stream.rs,    *)
(* server/src/persistence.rs).                                             *)
(*                                                                         *)
(* The specifications of this module:                                      *)
(*   SpecPool     one ConnectionPool: its deque, the idle watcher, the     *)
(*                checked-out handles and the (single, because get_conn    *)
(*                and reload take &mut self) caller of get_conn / reload;  *)
(*   Spec         the registry State.pools with its tasks, the Pending     *)
(*                single-flight protocol and update_config;                *)
(*   SpecGetConn  the registry under State::get_conn calls alone;          *)
(*   SpecConn     db::Connection: is_live, kill, drop and the background   *)
(*                task of spawn_conn (SpecConnFair: with the task run      *)
(*                once its kill signal is there);                          *)
(*   SpecBus      the StreamWorker of the lifecycle bus with its           *)
(*                subscribers;                                             *)
(*   SpecPage     db::paginated_query: filters, placeholders, paging and   *)
(*                the position of a Postgres error;                        *)
(*   SpecSql      db::parse_query and db::query_type on bounded texts;     *)
(*   SpecPw       one run of the password script of load_password and the  *)
(*                task that forwards its stderr.                           *)
(***************************************************************************)
EXTENDS Integers, Sequences, FiniteSets, TLC

(***************************************************************************)
(* Bounds of the model.                                                    *)
(***************************************************************************)
\* config.pool_size of the modelled pool (asserted > 0 by ConnectionPool::new)
PoolSize == 2
\* handles that clients hold at the same time
MaxOut == 2
\* connections a failed (partial) init may leave behind in the deque
MaxLeft == 1
\* idle watchers whose timeout fired and whose channel was replaced meanwhile
MaxStale == 1
\* tasks (request handlers) that call State::get_conn
NumTasks == 2
\* Pending entries inserted in one behaviour
MaxPending == 2
\* pool_size of the pools the registry creates
RegPoolSize == 1
\* db::Connection objects followed on their own
NumConns == 2
\* values the model lets into one kill channel
MaxSignals == 2
\* messages broadcast on the lifecycle bus in one behaviour
MaxMsgs == 3
\* subscribers of the lifecycle bus
NumSubs == 2
\* capacity of a subscriber's channel
SubCap == 2
\* WorkerMessages waiting in the worker's channel
WqCap == 2

\* the user's own parameters of a paginated query
MaxParams == 2
\* filters of a paginated query
MaxFilters == 2
\* rows the user's query yields
MaxRows == 4
\* the largest page_size and page asked for
MaxPageSize == 3
MaxPage == 3
\* columns of the user's query
MaxCols == 2
\* characters of the user's query an error position may point at
MaxQueryLen == 2
\* characters (and words) of a text handed to parse_query
MaxLen == 4
\* bytes the password script writes to its stderr
MaxBytes == 3
\* the length of the stderr task's buffer
BufLen == 2
\* broadcasts of the stderr task the model follows
MaxBroadcasts == 5

\* a strike test that is off by one
unstable_after_three(n) == n > 2

\* if inner.failed_health_checks >= 2 { ... go_dormant ... }
unstable(n) == n >= 2

\* connection names of the configuration, databases, and the registry keys
Conns == {"c1"}
DBs == {"d1", "d2"}
Keys == Conns \X DBs
Tasks == 1..NumTasks
ConnIds == 1..NumConns
Subs == 1..NumSubs
\* the candidate contents of Store.connections: each connection with its default
\* database, or missing from the configuration
Configs == [Conns -> DBs \cup {"absent"}]

VARIABLES
    \* ---- one ConnectionPool (ConnectionPoolInner and what hangs off it) ----
    live,                   \* inner.live
    conns,                  \* inner.conns, index 1 is the front of the deque
    failed_health_checks,   \* inner.failed_health_checks
    watcher,                \* the idle watcher of inner.not_idle: none/listening/fired
    pinged,                 \* a ping is buffered in the not_idle channel (capacity 1)
    staleFired,             \* fired watchers of replaced channels, waiting for the lock
    cpc,                    \* where the caller of get_conn / reload stands
    inhand,                 \* the connection wait_for_conn has popped and not yet returned
    res,                    \* what the last get_conn / reload call returned
    out,                    \* connections inside CheckedOutConnection handles
    revived,                \* the running get_conn call has re-initialized the pool
    ev,                     \* the last step taken on the pool
    conn_avail,             \* a message waits in the waiting call's conn_avail receiver
    \* ---- the registry: State.pools, State.config and the tasks using them ----
    pools,                  \* State.pools: key -> PoolState (or no entry)
    config,                 \* State.config.connections: name -> default database
    rlock,                  \* the task holding the State.pools mutex, 0 if free
    rpc,                    \* where each task stands in State::get_conn
    rkey,                   \* the ConnectionKey of the task's call
    myId,                   \* the Pending entry (its Notify) the task has inserted
    cancel_rx,              \* the creator's end of the Pending entry's cancel channel
    connection,             \* the creator's clone of the configured connection: its database
    waitOn,                 \* the Notify a waiter holds a Notified future of
    held,                   \* the pool of the CheckedOutConnection the task holds
    rret,                   \* the last return of a get_conn call: <<task, result>>
    nextId,                 \* the next fresh Pending entry
    \* ---- db::Connection objects on their own (db.rs) ----
    cn,                     \* each connection: its task has exited, rx and tx are Some
    kill_signals,           \* values that went into each connection's kill channel
    cause,                  \* why each background task exited
    dropped,                \* the Connection object has been dropped
    is_live_ret,            \* what the last is_live() call on each connection returned
    cev,                    \* the last step taken on a connection: <<step, connection>>
    \* ---- the lifecycle bus: the StreamWorker task and its subscribers (stream.rs) ----
    wq,                     \* the worker's channel of WorkerMessage
    wpc,                    \* the worker: idle, or replaying the cache to a subscriber
    cache,                  \* the worker's cache of broadcast messages
    txs,                    \* the worker's subscriber senders
    chan,                   \* each subscriber's channel: the messages buffered in it
    got,                    \* the messages each subscriber has received
    sub,                    \* each subscriber: new, subscribing (or subscribed), closed
    nmsg,                   \* messages broadcast so far (message n is the n-th)
    \* ---- one db::paginated_query call (db.rs) ----
    ppc,                    \* where the call stands: idle, queries, done
    user_params,            \* the number of the user's own parameters
    filters,                \* the operators of the filters, in filter order
    page,                   \* the page asked for
    page_size,              \* the page size asked for
    columns,                \* the names of inner_stmt's columns
    where_idx,              \* the placeholder of each filter's clause, 0 if it has none
    params,                 \* the bound parameter list
    query_result,           \* what the call returned
    \* ---- parse_query and query_type applied to one text (db.rs) ----
    spc,                    \* idle, called, parsed, typed
    sql,                    \* the text handed over
    parsed,                 \* parse_query(sql)
    qtype,                  \* query_type(parsed)
    \* ---- one run of the password script in load_password (persistence.rs) ----
    script,                 \* the child process: running or exited
    stderr_written,         \* bytes the script has written to its stderr
    stderr_pipe,            \* bytes in the stderr pipe, not yet read
    lpc,                    \* load_password: waiting for the child, timed out, done
    epc,                    \* the stderr task: reading, or ended
    broadcasts,             \* broadcasts the stderr task has made
    sev                     \* the last step of the run

poolVars == <<live, conns, failed_health_checks, watcher, pinged, staleFired,
              cpc, inhand, res, out, revived, ev, conn_avail>>

regVars == <<pools, config, rlock, rpc, rkey, myId, cancel_rx, connection, waitOn,
             held, rret, nextId>>

connVars == <<cn, kill_signals, cause, dropped, is_live_ret, cev>>

busVars == <<wq, wpc, cache, txs, chan, got, sub, nmsg>>

pageVars == <<ppc, user_params, filters, page, page_size, columns, where_idx, params,
              query_result>>

sqlVars == <<spc, sql, parsed, qtype>>

pwVars == <<script, stderr_written, stderr_pipe, lpc, epc, broadcasts, sev>>

vars == <<poolVars, regVars, connVars, busVars, pageVars, sqlVars, pwVars>>

(***************************************************************************)
(* db::Connection: the background task has exited or not, and the owner    *)
(* still holds the liveness receiver `rx` or has taken it.                 *)
(***************************************************************************)
NoConn == [exited |-> FALSE, rx |-> FALSE]

\* db::connect: a running task, rx: Some(live_rx)
Fresh == [exited |-> FALSE, rx |-> TRUE]

\* Connection::is_live: self.rx.take_if(|rx| rx.try_recv().is_ok()).is_some()
\* try_recv is Ok only once the task has sent on live_tx, i.e. has exited.
is_live(c) == c.rx /\ c.exited

\* the connection after an is_live call: take_if takes rx when the predicate held
after_is_live(c) == [c EXCEPT !.rx = IF is_live(c) THEN FALSE ELSE c.rx]

\* the wire of a running task errors: the task sends on live_tx and exits
wire_error(c) == [c EXCEPT !.exited = TRUE]

\* Connection::health_check: a round trip within health_check_timeout; it cannot
\* succeed on a connection whose background task has exited
HealthCheckOutcomes(c) == IF c.exited THEN {FALSE} ELSE {TRUE, FALSE}

push_front(q, c) == <<c>> \o q
back(q) == q[Len(q)]
pop_back(q) == SubSeq(q, 1, Len(q) - 1)

\* n fresh connections pushed to the front, one after the other
RECURSIVE spawn_n(_, _)
spawn_n(q, n) == IF n = 0 THEN q ELSE spawn_n(push_front(q, Fresh), n - 1)

\* an init that spawns one connection too few
init_one_short(q) == spawn_n(q, PoolSize - 1)

\* ConnectionPoolInner::init, all connects succeeding:
\* for _ in 0..self.config.pool_size { self.spawn_conn().await?; }
init(q) == spawn_n(q, PoolSize)

RemoveAt(s, i) == SubSeq(s, 1, i - 1) \o SubSeq(s, i + 1, Len(s))

\* a select! whose timer does not cover the wait for conn_avail
CancellableButWait == {"try", "watch", "ping"}

\* get_conn's select!: sleep(timeout) races wait_for_conn at each of its awaits
\* (the lock and the connects, conn_avail.recv, spawn_idle_watcher, not_idle.send)
Cancellable == {"try", "wait", "watch", "ping"}

\* a Drop that signals conn_avail for no deque
was_empty_never(q) == FALSE

\* let was_empty = pool.conns.is_empty()
was_empty(q) == q = <<>>

\* a health check that passes and leaves the failure counter as it is
counter_kept(n) == n

\* wait_for_conn, health check passed: inner.failed_health_checks = 0
counter_reset(n) == 0

\* ConnectionPool::is_unstable: inner.failed_health_checks > 0, read under the lock
is_unstable == failed_health_checks > 0

\* a Drop that checks connections back into a pool that has been shut down
pool_shut_down_never(l) == FALSE

\* Drop: `if !pool.live { return; }`
pool_shut_down(l) == ~l

\* a Drop that signals conn_avail before it knows a connection was placed
conn_avail_sent_first(q, pushed) == was_empty(q)

\* Drop, after the push: `if was_empty { conn_avail.send(()) }` is reached only
\* with a connection placed (a failed spawn_conn has panicked the task before it)
conn_avail_sent(q, pushed) == was_empty(q) /\ pushed # <<>>

\* the pool mutex is held across steps only by a checkout blocked in not_idle.send
LockFree == cpc # "ping"

\* inner.not_idle is Some exactly while the watcher spawned for it has not ended
NotIdle == watcher # "none"

\* a fired watcher loses its channel (replaced or cleared): it still waits for the lock
StaleAfterDrop == IF watcher = "fired" THEN staleFired + 1 ELSE staleFired

TypeOKPool ==
    /\ live \in BOOLEAN
    /\ conns \in Seq([exited : BOOLEAN, rx : BOOLEAN])
    /\ failed_health_checks \in 0..1
    /\ watcher \in {"none", "listening", "fired"}
    /\ pinged \in BOOLEAN
    /\ staleFired \in 0..(MaxStale + 1)
    /\ cpc \in {"idle", "try", "wait", "watch", "ping", "rwatch"}
    /\ out \in Seq([exited : BOOLEAN, rx : BOOLEAN])
    /\ Len(out) <= MaxOut
    /\ revived \in BOOLEAN
    /\ conn_avail \in BOOLEAN

\* ConnectionPool::new: init() then spawn_idle_watcher(), nothing checked out
InitPool ==
    /\ live = TRUE
    /\ conns = init(<<>>)
    /\ failed_health_checks = 0
    /\ watcher = "listening"
    /\ pinged = FALSE
    /\ staleFired = 0
    /\ cpc = "idle"
    /\ inhand = NoConn
    /\ res = "none"
    /\ out = <<>>
    /\ revived = FALSE
    /\ ev = "new"
    /\ conn_avail = FALSE


(***************************************************************************)
(* ConnectionPoolInner::go_dormant, on the pool fields it writes.          *)
(***************************************************************************)
go_dormant ==
    /\ live' = FALSE
    /\ conns' = <<>>
    /\ failed_health_checks' = 0
    /\ pinged' = FALSE

\* get_conn is entered: the select! of wait_for_conn against sleep(timeout) starts
GetConn ==
    /\ UNCHANGED <<regVars, connVars, busVars, pageVars, sqlVars, pwVars>>
    /\ cpc = "idle"
    /\ Len(out) < MaxOut
    /\ cpc' = "try"
    /\ res' = "none"
    /\ revived' = FALSE
    /\ ev' = "get_conn"
    /\ UNCHANGED <<live, conns, failed_health_checks, watcher, pinged, staleFired,
                   inhand, out>>
    /\ UNCHANGED conn_avail

\* wait_for_conn, dormant branch: init() under the lock; spawn_conn()? stops the
\* loop at the first connect error (or the call's timeout) with the connections
\* spawned so far left in the deque and live still false
Revive ==
    /\ UNCHANGED <<regVars, connVars, busVars, pageVars, sqlVars, pwVars>>
    /\ cpc = "try"
    /\ ~live
    /\ \E n \in 0..PoolSize :
        IF n = PoolSize
        THEN /\ conns' = init(conns)
             /\ live' = TRUE
             /\ failed_health_checks' = 0
             /\ cpc' = "watch"
             /\ revived' = TRUE
             /\ res' = res
             /\ ev' = "revive_ok"
        ELSE /\ Len(conns) + n <= MaxLeft
             /\ conns' = spawn_n(conns, n)
             /\ cpc' = "idle"
             /\ \E r \in {"err_connect", "err_timeout"} : res' = r
             /\ ev' = "revive_fail"
             /\ UNCHANGED <<live, failed_health_checks, revived>>
    /\ UNCHANGED <<watcher, pinged, staleFired, inhand, out>>
    /\ UNCHANGED conn_avail

\* spawn_idle_watcher: a new not_idle channel replaces the old one (whose watcher,
\* if it listens, sees the channel closed and ends); then wait_for_conn recurses,
\* or reload returns Ok
SpawnIdleWatcher ==
    /\ UNCHANGED <<regVars, connVars, busVars, pageVars, sqlVars, pwVars>>
    /\ cpc \in {"watch", "rwatch"}
    /\ staleFired' = StaleAfterDrop
    /\ watcher' = "listening"
    /\ pinged' = FALSE
    /\ cpc' = IF cpc = "watch" THEN "try" ELSE "idle"
    /\ res' = IF cpc = "watch" THEN res ELSE "ok"
    /\ ev' = "spawn_idle_watcher"
    /\ UNCHANGED <<live, conns, failed_health_checks, inhand, out, revived>>
    /\ UNCHANGED conn_avail

\* wait_for_conn: pop_back, the health check passes, the counter is reset, the idle
\* watcher is pinged (the send blocks while a ping is still buffered) and the
\* connection is returned inside a CheckedOutConnection
CheckoutPass ==
    /\ UNCHANGED <<regVars, connVars, busVars, pageVars, sqlVars, pwVars>>
    /\ cpc = "try"
    /\ live
    /\ conns # <<>>
    /\ TRUE \in HealthCheckOutcomes(back(conns))
    /\ conns' = pop_back(conns)
    /\ failed_health_checks' = counter_reset(failed_health_checks)
    /\ IF NotIdle /\ pinged
       THEN /\ cpc' = "ping"
            /\ inhand' = back(conns)
            /\ ev' = "checkout_blocked"
            /\ UNCHANGED <<out, res, pinged>>
       ELSE /\ cpc' = "idle"
            /\ out' = Append(out, back(conns))
            /\ res' = "conn"
            /\ pinged' = NotIdle
            /\ ev' = "checkout_ok"
            /\ UNCHANGED inhand
    /\ UNCHANGED <<live, watcher, staleFired, revived>>
    /\ UNCHANGED conn_avail

\* the blocked not_idle.send completes once the watcher has taken the buffered ping
PingDone ==
    /\ UNCHANGED <<regVars, connVars, busVars, pageVars, sqlVars, pwVars>>
    /\ cpc = "ping"
    /\ ~pinged
    /\ pinged' = TRUE
    /\ out' = Append(out, inhand)
    /\ inhand' = NoConn
    /\ cpc' = "idle"
    /\ res' = "conn"
    /\ ev' = "checkout_ok"
    /\ UNCHANGED <<live, conns, failed_health_checks, watcher, staleFired, revived>>
    /\ UNCHANGED conn_avail

\* wait_for_conn: the popped connection fails its health check and is killed
HealthCheckFail ==
    /\ UNCHANGED <<regVars, connVars, busVars, pageVars, sqlVars, pwVars>>
    /\ cpc = "try"
    /\ live
    /\ conns # <<>>
    /\ FALSE \in HealthCheckOutcomes(back(conns))
    /\ IF unstable(failed_health_checks + 1)
       THEN /\ go_dormant
            /\ watcher' = "none"
            /\ staleFired' = StaleAfterDrop
            /\ cpc' = "idle"
            /\ res' = "err_dormant"
            /\ ev' = "hc_fail_dormant"
       ELSE /\ failed_health_checks' = failed_health_checks + 1
            /\ \E spawned \in {"ok", "err_connect", "err_timeout"} :
                 IF spawned = "ok"
                 THEN /\ conns' = push_front(pop_back(conns), Fresh)
                      /\ cpc' = "try"
                      /\ res' = res
                      /\ ev' = "hc_fail_replaced"
                 ELSE /\ conns' = pop_back(conns)
                      /\ cpc' = "idle"
                      /\ res' = spawned
                      /\ ev' = "hc_fail_noreplace"
            /\ UNCHANGED <<live, watcher, pinged, staleFired>>
    /\ UNCHANGED <<inhand, out, revived>>
    /\ UNCHANGED conn_avail

\* the call's sleep(timeout) wins the select! while the health check of the popped
\* connection is awaited: the wait_for_conn future is dropped with the connection
HealthCheckCancelled ==
    /\ UNCHANGED <<regVars, connVars, busVars, pageVars, sqlVars, pwVars>>
    /\ cpc = "try"
    /\ live
    /\ conns # <<>>
    /\ conns' = pop_back(conns)
    /\ cpc' = "idle"
    /\ res' = "err_timeout"
    /\ ev' = "hc_cancelled"
    /\ UNCHANGED <<live, failed_health_checks, watcher, pinged, staleFired, inhand,
                   out, revived>>
    /\ UNCHANGED conn_avail

\* wait_for_conn: live and the deque is empty: subscribe to conn_avail, release
\* the lock and wait
WaitForAvail ==
    /\ UNCHANGED <<regVars, connVars, busVars, pageVars, sqlVars, pwVars>>
    /\ cpc = "try"
    /\ live
    /\ conns = <<>>
    /\ cpc' = "wait"
    /\ conn_avail' = FALSE
    /\ ev' = "wait"
    /\ UNCHANGED <<live, conns, failed_health_checks, watcher, pinged, staleFired,
                   inhand, res, out, revived>>

\* get_conn: sleep(timeout) wins the select! while wait_for_conn waits for the
\* lock, for conn_avail, or in the blocked ping (where the popped connection is
\* dropped with the future)
CheckoutTimeout ==
    /\ UNCHANGED <<regVars, connVars, busVars, pageVars, sqlVars, pwVars>>
    /\ cpc \in Cancellable
    /\ cpc' = "idle"
    /\ inhand' = NoConn
    /\ conn_avail' = FALSE
    /\ res' = "err_timeout"
    /\ ev' = IF cpc = "ping" THEN "timeout_ping" ELSE "timeout"
    /\ UNCHANGED <<live, conns, failed_health_checks, watcher, pinged, staleFired,
                   out, revived>>

\* impl Drop for CheckedOutConnection: the spawned task takes the lock; a dormant
\* pool discards the connection; otherwise the connection goes to the front if
\* is_live() says so, else spawn_conn().await.unwrap() (a connect error panics the
\* task before anything is pushed or signalled); conn_avail is signalled if the
\* deque was empty
DropHandle ==
    /\ UNCHANGED <<regVars, connVars, busVars, pageVars, sqlVars, pwVars>>
    /\ LockFree
    /\ \E i \in 1..Len(out) :
        /\ out' = RemoveAt(out, i)
        /\ IF pool_shut_down(live)
           THEN /\ ev' = "drop_discard"
                /\ UNCHANGED <<conns, conn_avail>>
           ELSE \E connected \in BOOLEAN :
                /\ conns' = IF is_live(out[i])
                            THEN push_front(conns, after_is_live(out[i]))
                            ELSE IF connected THEN push_front(conns, Fresh)
                            ELSE conns
                /\ ev' = IF is_live(out[i]) THEN "drop_push"
                         ELSE IF connected THEN "drop_spawn" ELSE "drop_panic"
                /\ conn_avail' = IF conn_avail_sent(conns, conns') /\ cpc = "wait"
                                 THEN TRUE ELSE conn_avail
    /\ UNCHANGED <<live, failed_health_checks, watcher, pinged, staleFired, cpc,
                   inhand, res, revived>>

\* wait_for_conn: conn_avail.recv() returns and the call recurses
WaiterWoken ==
    /\ UNCHANGED <<regVars, connVars, busVars, pageVars, sqlVars, pwVars>>
    /\ cpc = "wait"
    /\ conn_avail
    /\ conn_avail' = FALSE
    /\ cpc' = "try"
    /\ ev' = "woken"
    /\ UNCHANGED <<live, conns, failed_health_checks, watcher, pinged, staleFired,
                   inhand, res, out, revived>>

\* ConnectionPool::reload: conns.clear() and init() under the lock; on success the
\* caller goes on to spawn_idle_watcher, on a connect error it returns the error
Reload ==
    /\ UNCHANGED <<regVars, connVars, busVars, pageVars, sqlVars, pwVars>>
    /\ cpc = "idle"
    /\ revived' = FALSE
    /\ \E n \in 0..PoolSize :
        /\ conns' = IF n = PoolSize THEN init(<<>>) ELSE spawn_n(<<>>, n)
        /\ IF n = PoolSize
           THEN /\ live' = TRUE
                /\ failed_health_checks' = 0
                /\ cpc' = "rwatch"
                /\ res' = "none"
                /\ ev' = "reload_ok"
           ELSE /\ cpc' = "idle"
                /\ res' = "err_connect"
                /\ ev' = "reload_fail"
                /\ UNCHANGED <<live, failed_health_checks>>
    /\ UNCHANGED <<watcher, pinged, staleFired, inhand, out>>
    /\ UNCHANGED conn_avail

\* idle watcher: not_idle_rx.recv() yields the buffered ping ("still alive")
WatcherRecv ==
    /\ UNCHANGED <<regVars, connVars, busVars, pageVars, sqlVars, pwVars>>
    /\ watcher = "listening"
    /\ pinged
    /\ pinged' = FALSE
    /\ ev' = "still_alive"
    /\ UNCHANGED <<live, conns, failed_health_checks, watcher, staleFired, cpc,
                   inhand, res, out, revived>>
    /\ UNCHANGED conn_avail

\* idle watcher: idle_timeout passes with no ping: the watcher goes for the lock
WatcherTimeout ==
    /\ UNCHANGED <<regVars, connVars, busVars, pageVars, sqlVars, pwVars>>
    /\ watcher = "listening"
    /\ ~pinged
    /\ staleFired < MaxStale
    /\ watcher' = "fired"
    /\ ev' = "idle_timeout"
    /\ UNCHANGED <<live, conns, failed_health_checks, pinged, staleFired, cpc,
                   inhand, res, out, revived>>
    /\ UNCHANGED conn_avail

\* idle watcher: with the lock, go_dormant() and end
WatcherDormant ==
    /\ UNCHANGED <<regVars, connVars, busVars, pageVars, sqlVars, pwVars>>
    /\ watcher = "fired"
    /\ LockFree
    /\ go_dormant
    /\ watcher' = "none"
    /\ ev' = "idle_dormant"
    /\ UNCHANGED <<staleFired, cpc, inhand, res, out, revived>>
    /\ UNCHANGED conn_avail

\* a watcher that fired before its channel was replaced gets the lock: go_dormant()
\* on the pool as it is now, clearing the not_idle of the watcher that replaced it
StaleWatcherDormant ==
    /\ UNCHANGED <<regVars, connVars, busVars, pageVars, sqlVars, pwVars>>
    /\ staleFired > 0
    /\ LockFree
    /\ go_dormant
    /\ watcher' = "none"
    /\ staleFired' = StaleAfterDrop - 1
    /\ ev' = "stale_dormant"
    /\ UNCHANGED <<cpc, inhand, res, out, revived>>
    /\ UNCHANGED conn_avail

\* the wire of a checked-out or pooled connection errors: its task exits
WireError ==
    /\ UNCHANGED <<regVars, connVars, busVars, pageVars, sqlVars, pwVars>>
    /\ \/ \E i \in 1..Len(out) :
            /\ ~out[i].exited
            /\ out' = [out EXCEPT ![i] = wire_error(out[i])]
            /\ UNCHANGED conns
       \/ \E i \in 1..Len(conns) :
            /\ ~conns[i].exited
            /\ conns' = [conns EXCEPT ![i] = wire_error(conns[i])]
            /\ UNCHANGED out
    /\ ev' = "wire_error"
    /\ UNCHANGED <<live, failed_health_checks, watcher, pinged, staleFired, cpc,
                   inhand, res, revived>>
    /\ UNCHANGED conn_avail

NextPool ==
    \/ GetConn
    \/ Revive
    \/ SpawnIdleWatcher
    \/ CheckoutPass
    \/ PingDone
    \/ HealthCheckFail
    \/ HealthCheckCancelled
    \/ WaitForAvail
    \/ CheckoutTimeout
    \/ DropHandle
    \/ WaiterWoken
    \/ Reload
    \/ WatcherRecv
    \/ WatcherTimeout
    \/ WatcherDormant
    \/ StaleWatcherDormant
    \/ WireError



(***************************************************************************)
(* The registry: State.pools (lib.rs) and update_config (routes.rs).       *)
(* A pool inside an Active entry is kept as the database it connects to    *)
(* and the number of connections in its deque; `id` tells pool objects     *)
(* (and the creation that produced an entry) apart.                        *)
(***************************************************************************)
Absent == [st |-> "Absent", id |-> 0, db |-> "-", avail |-> 0, msg |-> "-"]
Pending(n) == [st |-> "Pending", id |-> n, db |-> "-", avail |-> 0, msg |-> "-"]
Active(n, d, a) == [st |-> "Active", id |-> n, db |-> d, avail |-> a, msg |-> "-"]
Failed(n, m) == [st |-> "Failed", id |-> n, db |-> "-", avail |-> 0, msg |-> m]

\* the key shown for a task that is in no call
DefaultKey == <<"c1", "d1">>

\* a lookup that takes a Pending entry for no entry
NoEntryOrPending(k) == pools[k].st \in {"Absent", "Pending"}

\* pools.get_mut(&conn_key) is None
NoEntry(k) == pools[k].st = "Absent"

\* the cancel receivers after the map changed: the sender of a Pending entry that
\* was removed or overwritten is dropped with it
CancelAfter(t, newpools) ==
    [w \in Tasks |->
        IF w = t THEN "none"
        ELSE IF cancel_rx[w] = "open" /\ newpools[rkey[w]] # Pending(myId[w])
        THEN "closed" ELSE cancel_rx[w]]

\* cancel_rx.try_recv().is_ok(): a value was sent on the Pending entry's cancel
\* channel (a sender that was only dropped gives Err(Closed))
Cancelled(t) == cancel_rx[t] = "sent"

\* impl From<&persistence::Connection> for db::Config: .database(conn.database)
ConfigDatabase(conn_database, key) == conn_database

\* the keys a task may look up: any for a new call, its own when it recurses
CallKeys(t) == IF rpc[t] = "retry" THEN {rkey[t]} ELSE Keys

\* a creator that notifies before it has installed
NotifyEarly(t) == rpc[t] \in {"password", "notify"}

\* the creator is past its install and may notify
NotifyReady(t) == rpc[t] = "notify"

TypeOKReg ==
    /\ pools \in [Keys -> [st : {"Absent", "Pending", "Active", "Failed"},
                           id : 0..MaxPending, db : DBs \cup {"-"},
                           avail : 0..(RegPoolSize + NumTasks),
                           msg : {"-", "Failed to load password", "connect error"}]]
    /\ config \in Configs
    /\ rlock \in 0..NumTasks
    /\ rpc \in [Tasks -> {"idle", "retry", "waiting", "creating", "password",
                          "notify", "checkout", "using"}]
    /\ rkey \in [Tasks -> Keys]
    /\ connection \in [Tasks -> DBs \cup {"-"}]
    /\ myId \in [Tasks -> 0..MaxPending]
    /\ cancel_rx \in [Tasks -> {"none", "open", "closed", "sent"}]
    /\ waitOn \in [Tasks -> 0..MaxPending]
    /\ held \in [Tasks -> 0..MaxPending]
    /\ nextId \in 1..(MaxPending + 1)

\* State { pools: empty, config: Store::load() }
InitReg ==
    /\ pools = [k \in Keys |-> Absent]
    /\ config \in Configs
    /\ rlock = 0
    /\ rpc = [t \in Tasks |-> "idle"]
    /\ rkey = [t \in Tasks |-> DefaultKey]
    /\ myId = [t \in Tasks |-> 0]
    /\ cancel_rx = [t \in Tasks |-> "none"]
    /\ connection = [t \in Tasks |-> "-"]
    /\ waitOn = [t \in Tasks |-> 0]
    /\ held = [t \in Tasks |-> 0]
    /\ rret = <<0, DefaultKey, "none">>
    /\ nextId = 1

\* a call returns: its locals are gone
Returned(t, k, result) ==
    /\ rpc' = [rpc EXCEPT ![t] = "idle"]
    /\ rkey' = [rkey EXCEPT ![t] = DefaultKey]
    /\ rret' = <<t, k, result>>

\* State::get_conn, PoolState::Failed(err) => eyre::bail!(err.clone())
GetConnFailed(t) ==
    /\ UNCHANGED <<poolVars, connVars, busVars, pageVars, sqlVars, pwVars>>
    /\ rpc[t] \in {"idle", "retry"}
    /\ rlock = 0
    /\ \E k \in CallKeys(t) :
        /\ pools[k].st = "Failed"
        /\ Returned(t, k, pools[k].msg)
    /\ waitOn' = [waitOn EXCEPT ![t] = 0]
    /\ UNCHANGED <<pools, config, rlock, myId, cancel_rx, connection, held, nextId>>

\* State::get_conn, PoolState::Active(pool) => return pool.get_conn().await, called
\* with the `pools` guard alive: a connection is handed out, or the pool returns
\* an error, or the deque is empty and the call waits inside the pool
GetConnActive(t) ==
    /\ UNCHANGED <<poolVars, connVars, busVars, pageVars, sqlVars, pwVars>>
    /\ rpc[t] \in {"idle", "retry"}
    /\ rlock = 0
    /\ \E k \in CallKeys(t) :
        /\ pools[k].st = "Active"
        /\ IF pools[k].avail > 0
           THEN \E ok \in BOOLEAN :
                IF ok
                THEN /\ pools' = [pools EXCEPT ![k].avail = @ - 1]
                     /\ held' = [held EXCEPT ![t] = pools[k].id]
                     /\ rpc' = [rpc EXCEPT ![t] = "using"]
                     /\ rkey' = [rkey EXCEPT ![t] = k]
                     /\ rret' = <<t, k, "conn">>
                     /\ UNCHANGED rlock
                ELSE /\ Returned(t, k, "err_pool")
                     /\ UNCHANGED <<pools, held, rlock>>
           ELSE /\ rlock' = t
                /\ rpc' = [rpc EXCEPT ![t] = "checkout"]
                /\ rkey' = [rkey EXCEPT ![t] = k]
                /\ UNCHANGED <<pools, held, rret>>
    /\ waitOn' = [waitOn EXCEPT ![t] = 0]
    /\ UNCHANGED <<config, myId, cancel_rx, connection, nextId>>

\* the call waiting inside pool.get_conn gets the connection a handle returned
CheckoutResume(t) ==
    /\ UNCHANGED <<poolVars, connVars, busVars, pageVars, sqlVars, pwVars>>
    /\ rpc[t] = "checkout"
    /\ pools[rkey[t]].avail > 0
    /\ pools' = [pools EXCEPT ![rkey[t]].avail = @ - 1]
    /\ held' = [held EXCEPT ![t] = pools[rkey[t]].id]
    /\ rpc' = [rpc EXCEPT ![t] = "using"]
    /\ rret' = <<t, rkey[t], "conn">>
    /\ rlock' = 0
    /\ UNCHANGED <<config, rkey, myId, cancel_rx, connection, waitOn, nextId>>

\* the call waiting inside pool.get_conn runs into the checkout timeout
CheckoutGiveUp(t) ==
    /\ UNCHANGED <<poolVars, connVars, busVars, pageVars, sqlVars, pwVars>>
    /\ rpc[t] = "checkout"
    /\ Returned(t, rkey[t], "err_timeout")
    /\ rlock' = 0
    /\ UNCHANGED <<pools, config, myId, cancel_rx, connection, waitOn, held, nextId>>

\* State::get_conn, PoolState::Pending { notify, .. }: take a Notified of the
\* entry's Notify, release the lock and wait
GetConnPending(t) ==
    /\ UNCHANGED <<poolVars, connVars, busVars, pageVars, sqlVars, pwVars>>
    /\ rpc[t] \in {"idle", "retry"}
    /\ rlock = 0
    /\ \E k \in CallKeys(t) :
        /\ pools[k].st = "Pending"
        /\ rkey' = [rkey EXCEPT ![t] = k]
        /\ waitOn' = [waitOn EXCEPT ![t] = pools[k].id]
    /\ rpc' = [rpc EXCEPT ![t] = "waiting"]
    /\ UNCHANGED <<pools, config, rlock, myId, cancel_rx, connection, held, rret,
                   nextId>>

\* State::get_conn, no entry: insert Pending { notify, cancel } and release the lock
GetConnAbsent(t) ==
    /\ UNCHANGED <<poolVars, connVars, busVars, pageVars, sqlVars, pwVars>>
    /\ rpc[t] \in {"idle", "retry"}
    /\ rlock = 0
    /\ nextId <= MaxPending
    /\ \E k \in CallKeys(t) :
        /\ NoEntry(k)
        /\ rkey' = [rkey EXCEPT ![t] = k]
        /\ pools' = [pools EXCEPT ![k] = Pending(nextId)]
    /\ myId' = [myId EXCEPT ![t] = nextId]
    /\ nextId' = nextId + 1
    /\ cancel_rx' = [cancel_rx EXCEPT ![t] = "open"]
    /\ rpc' = [rpc EXCEPT ![t] = "creating"]
    /\ waitOn' = [waitOn EXCEPT ![t] = 0]
    /\ UNCHANGED <<config, rlock, connection, held, rret>>

\* the creator reads the configuration: the connection named by the key, cloned,
\* or the error "no connection named ..." returned by `?` with Pending left behind
CreatorLookup(t) ==
    /\ UNCHANGED <<poolVars, connVars, busVars, pageVars, sqlVars, pwVars>>
    /\ rpc[t] = "creating"
    /\ IF config[rkey[t][1]] = "absent"
       THEN /\ Returned(t, rkey[t], "err_noconn")
            /\ myId' = [myId EXCEPT ![t] = 0]
            /\ cancel_rx' = [cancel_rx EXCEPT ![t] = "none"]
            /\ UNCHANGED connection
       ELSE /\ rpc' = [rpc EXCEPT ![t] = "password"]
            /\ connection' = [connection EXCEPT ![t] = config[rkey[t][1]]]
            /\ UNCHANGED <<rkey, rret, myId, cancel_rx>>
    /\ UNCHANGED <<pools, config, rlock, waitOn, held, nextId>>

\* the creator's install under the lock: `if cancel_rx.try_recv().is_ok()` it
\* recurses into get_conn with the `pools` guard still alive; otherwise the entry
\* is inserted over whatever the key holds
Install(t, entry) ==
    IF Cancelled(t)
    THEN /\ rlock' = t
         /\ rpc' = [rpc EXCEPT ![t] = "retry"]
         /\ UNCHANGED <<pools, rkey, rret>>
    ELSE /\ pools' = [pools EXCEPT ![rkey[t]] = entry]
         /\ UNCHANGED rlock

\* load_password fails: Failed(err) is inserted and Err(err) returned, without
\* reaching notify.notify_waiters()
CreatorPasswordFailed(t) ==
    /\ UNCHANGED <<poolVars, connVars, busVars, pageVars, sqlVars, pwVars>>
    /\ rpc[t] = "password"
    /\ rlock = 0
    /\ Install(t, Failed(myId[t], "Failed to load password"))
    /\ ~Cancelled(t) => Returned(t, rkey[t], "Failed to load password")
    /\ myId' = [myId EXCEPT ![t] = 0]
    /\ cancel_rx' = CancelAfter(t, pools')
    /\ connection' = [connection EXCEPT ![t] = "-"]
    /\ UNCHANGED <<config, waitOn, held, nextId>>

\* create_pool: ConnectionPool::new fails, PoolState::Failed(err) is inserted; the
\* creator goes on to notify and then returns the error
CreatorPoolFailed(t) ==
    /\ UNCHANGED <<poolVars, connVars, busVars, pageVars, sqlVars, pwVars>>
    /\ rpc[t] = "password"
    /\ rlock = 0
    /\ Install(t, Failed(myId[t], "connect error"))
    /\ IF Cancelled(t)
       THEN myId' = [myId EXCEPT ![t] = 0]
       ELSE /\ rpc' = [rpc EXCEPT ![t] = "notify"]
            /\ UNCHANGED <<myId, rkey, rret>>
    /\ cancel_rx' = CancelAfter(t, pools')
    /\ connection' = [connection EXCEPT ![t] = "-"]
    /\ UNCHANGED <<config, waitOn, held, nextId>>

\* create_pool returns Err (its own pool.get_conn or version_info failed after the
\* pool was built): `create_pool(&connection).await?` returns with Pending left
CreatorPoolError(t) ==
    /\ UNCHANGED <<poolVars, connVars, busVars, pageVars, sqlVars, pwVars>>
    /\ rpc[t] = "password"
    /\ Returned(t, rkey[t], "err_pool")
    /\ myId' = [myId EXCEPT ![t] = 0]
    /\ cancel_rx' = [cancel_rx EXCEPT ![t] = "none"]
    /\ connection' = [connection EXCEPT ![t] = "-"]
    /\ UNCHANGED <<pools, config, rlock, waitOn, held, nextId>>

\* create_pool returns Active(pool), the pool connected to the database of
\* db::Config::from(&connection); it is inserted and a connection is checked out of
\* it under the lock (or the pool returns an error); the creator goes on to notify
CreatorPoolActive(t) ==
    /\ UNCHANGED <<poolVars, connVars, busVars, pageVars, sqlVars, pwVars>>
    /\ rpc[t] = "password"
    /\ rlock = 0
    /\ \E ok \in BOOLEAN :
        /\ Install(t, Active(myId[t], ConfigDatabase(connection[t], rkey[t]),
                             IF ok THEN RegPoolSize - 1 ELSE RegPoolSize))
        /\ IF Cancelled(t)
           THEN /\ myId' = [myId EXCEPT ![t] = 0]
                /\ UNCHANGED held
           ELSE /\ rpc' = [rpc EXCEPT ![t] = "notify"]
                /\ held' = [held EXCEPT ![t] = IF ok THEN myId[t] ELSE 0]
                /\ UNCHANGED <<myId, rkey, rret>>
    /\ cancel_rx' = CancelAfter(t, pools')
    /\ connection' = [connection EXCEPT ![t] = "-"]
    /\ UNCHANGED <<config, waitOn, nextId>>

\* notify.notify_waiters(): every task holding a Notified of this Notify is woken
\* and recurses into get_conn; the creator returns the connection or the error
CreatorNotify(t) ==
    /\ UNCHANGED <<poolVars, connVars, busVars, pageVars, sqlVars, pwVars>>
    /\ NotifyReady(t)
    /\ myId[t] # 0
    /\ rpc' = [w \in Tasks |->
                IF w = t THEN (IF held[t] # 0 THEN "using" ELSE "idle")
                ELSE IF rpc[w] = "waiting" /\ waitOn[w] = myId[t] THEN "retry"
                ELSE rpc[w]]
    /\ rkey' = [rkey EXCEPT ![t] = IF held[t] # 0 THEN rkey[t] ELSE DefaultKey]
    /\ rret' = <<t, rkey[t], IF held[t] # 0 THEN "conn"
                             ELSE IF pools[rkey[t]].st = "Failed"
                             THEN "Failed to open connection pool" ELSE "err_pool">>
    /\ myId' = [myId EXCEPT ![t] = 0]
    /\ UNCHANGED <<pools, config, rlock, cancel_rx, connection, waitOn, held, nextId>>

\* the handle is dropped: the connection goes back to the pool it came from, which
\* may no longer be the pool (or no pool at all) the registry holds under the key
DropConn(t) ==
    /\ UNCHANGED <<poolVars, connVars, busVars, pageVars, sqlVars, pwVars>>
    /\ rpc[t] = "using"
    /\ rpc' = [rpc EXCEPT ![t] = "idle"]
    /\ rkey' = [rkey EXCEPT ![t] = DefaultKey]
    /\ held' = [held EXCEPT ![t] = 0]
    /\ pools' = IF pools[rkey[t]].st = "Active" /\ pools[rkey[t]].id = held[t]
                THEN [pools EXCEPT ![rkey[t]].avail = @ + 1]
                ELSE pools
    /\ UNCHANGED <<config, rlock, myId, cancel_rx, connection, waitOn, rret, nextId>>

\* ConnectionPool::reload of the pool in an Active entry: the new config, the
\* deque cleared and n of pool_size connections spawned before a connect error
\* (n = pool_size: none)
Reloaded(e, d, n) == IF e.st = "Active" THEN Active(e.id, d, n) ELSE e

\* update_config: the configuration is replaced; with the registry locked, every
\* entry of a connection still configured has its password loaded (an error
\* returns from the handler at once, before any removal, with the pools visited
\* so far reloaded) and its pool reloaded (a reload error is only broadcast);
\* then the entries of connections no longer configured are removed, which drops
\* the cancel sender of a Pending entry
UpdateConfig ==
    /\ UNCHANGED <<poolVars, connVars, busVars, pageVars, sqlVars, pwVars>>
    /\ rlock = 0
    /\ \E new \in Configs :
        LET kept == {k \in Keys : ~NoEntry(k) /\ new[k[1]] # "absent"}
            active == {k \in kept : pools[k].st = "Active"}
        IN  /\ config' = new
            /\ \E visited \in SUBSET active, completed \in BOOLEAN, n \in 0..RegPoolSize :
                /\ completed => visited = active
                /\ ~completed => kept # {} /\ visited # active
                /\ visited = {} => n = 0
                /\ pools' = [k \in Keys |->
                              IF new[k[1]] = "absent"
                              THEN (IF completed THEN Absent ELSE pools[k])
                              ELSE IF k \in visited
                              THEN Reloaded(pools[k], new[k[1]], n)
                              ELSE pools[k]]
    /\ cancel_rx' = CancelAfter(0, pools')
    /\ UNCHANGED <<rlock, rpc, rkey, myId, connection, waitOn, held, rret, nextId>>

NextReg ==
    \/ \E t \in Tasks :
        \/ GetConnFailed(t)
        \/ GetConnActive(t)
        \/ CheckoutResume(t)
        \/ CheckoutGiveUp(t)
        \/ GetConnPending(t)
        \/ GetConnAbsent(t)
        \/ CreatorLookup(t)
        \/ CreatorPasswordFailed(t)
        \/ CreatorPoolFailed(t)
        \/ CreatorPoolError(t)
        \/ CreatorPoolActive(t)
        \/ CreatorNotify(t)
        \/ DropConn(t)
    \/ UpdateConfig

(***************************************************************************)
(* db::Connection on its own (db.rs): the owner calls is_live and kill and *)
(* drops the connection; the background task of spawn_conn exits on a wire *)
(* error or when the kill signal arrives, sending on live_tx as it exits.  *)
(***************************************************************************)
\* a kill that leaves the sender in place
kill_keeps_tx(c) == c

\* a kill whose value never reaches the task
kill_lost(c) == FALSE

\* Connection::kill: if let Some(tx) = self.tx.take() { let _ = tx.send(()); }
kill(c) == [c EXCEPT !.tx = FALSE]

\* tx.send(()) puts a value into the kill channel unless the task, which owns the
\* receiver, has exited
kill_delivered(c) == c.tx /\ ~c.exited

\* the kill channel holds at most MaxSignals values in the model
signals_after(c, n) ==
    IF kill_delivered(c) /\ n < MaxSignals THEN n + 1 ELSE n

TypeOKConn ==
    /\ cn \in [ConnIds -> [exited : BOOLEAN, rx : BOOLEAN, tx : BOOLEAN]]
    /\ kill_signals \in [ConnIds -> 0..MaxSignals]
    /\ cause \in [ConnIds -> {"none", "wire", "kill"}]
    /\ dropped \in [ConnIds -> BOOLEAN]
    /\ is_live_ret \in [ConnIds -> {"none", "true", "false"}]
    /\ cev \in {"connect", "is_live", "kill", "drop", "task_killed", "task_error"}
                \X (ConnIds \cup {0})

\* db::connect: Connection { client, rx: Some(live_rx), tx: Some(kill_tx) }
InitConn ==
    /\ cn = [i \in ConnIds |-> [exited |-> FALSE, rx |-> TRUE, tx |-> TRUE]]
    /\ kill_signals = [i \in ConnIds |-> 0]
    /\ cause = [i \in ConnIds |-> "none"]
    /\ dropped = [i \in ConnIds |-> FALSE]
    /\ is_live_ret = [i \in ConnIds |-> "none"]
    /\ cev = <<"connect", 0>>

\* Connection::is_live
ConnIsLive(i) ==
    /\ UNCHANGED <<poolVars, regVars, busVars, pageVars, sqlVars, pwVars>>
    /\ ~dropped[i]
    /\ is_live_ret' = [is_live_ret EXCEPT ![i] = IF is_live(cn[i]) THEN "true" ELSE "false"]
    /\ cn' = [cn EXCEPT ![i] = after_is_live(cn[i])]
    /\ cev' = <<"is_live", i>>
    /\ UNCHANGED <<kill_signals, cause, dropped>>

\* Connection::kill
ConnKill(i) ==
    /\ UNCHANGED <<poolVars, regVars, busVars, pageVars, sqlVars, pwVars>>
    /\ ~dropped[i]
    /\ kill_signals' = [kill_signals EXCEPT ![i] = signals_after(cn[i], kill_signals[i])]
    /\ cn' = [cn EXCEPT ![i] = kill(cn[i])]
    /\ cev' = <<"kill", i>>
    /\ UNCHANGED <<cause, dropped, is_live_ret>>

\* impl Drop for Connection: self.kill(), then the fields (rx, tx) are dropped
ConnDrop(i) ==
    /\ UNCHANGED <<poolVars, regVars, busVars, pageVars, sqlVars, pwVars>>
    /\ ~dropped[i]
    /\ kill_signals' = [kill_signals EXCEPT ![i] = signals_after(cn[i], kill_signals[i])]
    /\ cn' = [cn EXCEPT ![i] = [kill(cn[i]) EXCEPT !.rx = FALSE, !.tx = FALSE]]
    /\ dropped' = [dropped EXCEPT ![i] = TRUE]
    /\ cev' = <<"drop", i>>
    /\ UNCHANGED <<cause, is_live_ret>>

\* spawn_conn's task: `_ = rx => {}` on the kill signal, then tx.send(()) and exit
ConnTaskKilled(i) ==
    /\ UNCHANGED <<poolVars, regVars, busVars, pageVars, sqlVars, pwVars>>
    /\ ~cn[i].exited
    /\ kill_signals[i] > 0
    /\ cn' = [cn EXCEPT ![i] = wire_error(cn[i])]
    /\ cause' = [cause EXCEPT ![i] = "kill"]
    /\ cev' = <<"task_killed", i>>
    /\ UNCHANGED <<kill_signals, dropped, is_live_ret>>

\* spawn_conn's task: `Err(e) = conn` on a connection error, then tx.send(()) and exit
ConnTaskError(i) ==
    /\ UNCHANGED <<poolVars, regVars, busVars, pageVars, sqlVars, pwVars>>
    /\ ~cn[i].exited
    /\ cn' = [cn EXCEPT ![i] = wire_error(cn[i])]
    /\ cause' = [cause EXCEPT ![i] = "wire"]
    /\ cev' = <<"task_error", i>>
    /\ UNCHANGED <<kill_signals, dropped, is_live_ret>>

NextConn ==
    \E i \in ConnIds :
        \/ ConnIsLive(i)
        \/ ConnKill(i)
        \/ ConnDrop(i)
        \/ ConnTaskKilled(i)
        \/ ConnTaskError(i)

(***************************************************************************)
(* The lifecycle bus (stream.rs): broadcast and subscribe send a            *)
(* WorkerMessage to the worker task, which keeps the cache of all messages  *)
(* and the senders of the subscribers.                                      *)
(***************************************************************************)
\* tx.try_send(msg) on a subscriber's channel: Closed if the receiver is gone,
\* Full (the message is not queued) if the buffer holds SubCap messages
try_send(s, m) ==
    IF sub[s] = "closed" THEN "Closed"
    ELSE IF Len(chan[s]) >= SubCap THEN "Full" ELSE "Ok"

\* the channel after try_send
sent_to(s, m) == IF try_send(s, m) = "Ok" THEN Append(chan[s], m) ELSE chan[s]

TypeOKBus ==
    /\ wq \in Seq({"sub", "msg"} \X (0..(MaxMsgs + NumSubs)))
    /\ Len(wq) <= WqCap
    /\ wpc \in {<<"recv", 0, 0>>} \cup ({"replay"} \X Subs \X (1..MaxMsgs))
    /\ cache \in Seq(1..MaxMsgs)
    /\ txs \in Seq(Subs)
    /\ chan \in [Subs -> Seq(1..MaxMsgs)]
    /\ got \in [Subs -> Seq(1..MaxMsgs)]
    /\ sub \in [Subs -> {"new", "subscribing", "closed"}]
    /\ nmsg \in 0..MaxMsgs

\* StreamWorker::new: an empty channel, cache and subscriber list
InitBus ==
    /\ wq = <<>>
    /\ wpc = <<"recv", 0, 0>>
    /\ cache = <<>>
    /\ txs = <<>>
    /\ chan = [s \in Subs |-> <<>>]
    /\ got = [s \in Subs |-> <<>>]
    /\ sub = [s \in Subs |-> "new"]
    /\ nmsg = 0

\* stream::broadcast: self.tx.send(WorkerMessage::Broadcast(msg)).await
Broadcast ==
    /\ UNCHANGED <<poolVars, regVars, connVars, pageVars, sqlVars, pwVars>>
    /\ nmsg < MaxMsgs
    /\ Len(wq) < WqCap
    /\ nmsg' = nmsg + 1
    /\ wq' = Append(wq, <<"msg", nmsg + 1>>)
    /\ UNCHANGED <<wpc, cache, txs, chan, got, sub>>

\* stream::subscribe: self.tx.send(WorkerMessage::Subscribe(tx)).await
Subscribe(s) ==
    /\ UNCHANGED <<poolVars, regVars, connVars, pageVars, sqlVars, pwVars>>
    /\ sub[s] = "new"
    /\ Len(wq) < WqCap
    /\ sub' = [sub EXCEPT ![s] = "subscribing"]
    /\ wq' = Append(wq, <<"sub", s>>)
    /\ UNCHANGED <<wpc, cache, txs, chan, got, nmsg>>

\* worker: rx.recv() yields Subscribe(tx): the replay of the cache starts, or with
\* an empty cache the sender is pushed at once
WorkerSubscribe ==
    /\ UNCHANGED <<poolVars, regVars, connVars, pageVars, sqlVars, pwVars>>
    /\ wpc[1] = "recv"
    /\ wq # <<>>
    /\ Head(wq)[1] = "sub"
    /\ wq' = Tail(wq)
    /\ IF cache = <<>>
       THEN txs' = Append(txs, Head(wq)[2]) /\ UNCHANGED wpc
       ELSE wpc' = <<"replay", Head(wq)[2], 1>> /\ UNCHANGED txs
    /\ UNCHANGED <<cache, chan, got, sub, nmsg>>

\* worker: one turn of `for msg in cache.iter()`: try_send; Closed abandons the
\* subscriber, Full and Ok go on; after the last message txs.push(tx)
WorkerReplay ==
    /\ UNCHANGED <<poolVars, regVars, connVars, pageVars, sqlVars, pwVars>>
    /\ wpc[1] = "replay"
    /\ LET s == wpc[2]
           i == wpc[3]
       IN  /\ chan' = [chan EXCEPT ![s] = sent_to(s, cache[i])]
           /\ IF try_send(s, cache[i]) = "Closed"
              THEN wpc' = <<"recv", 0, 0>> /\ UNCHANGED txs
              ELSE IF i = Len(cache)
              THEN wpc' = <<"recv", 0, 0>> /\ txs' = Append(txs, s)
              ELSE wpc' = <<"replay", s, i + 1>> /\ UNCHANGED txs
    /\ UNCHANGED <<wq, cache, got, sub, nmsg>>

\* worker: rx.recv() yields Broadcast(text): txs.retain(try_send is not Closed),
\* then cache.push(text)
WorkerBroadcast ==
    /\ UNCHANGED <<poolVars, regVars, connVars, pageVars, sqlVars, pwVars>>
    /\ wpc[1] = "recv"
    /\ wq # <<>>
    /\ Head(wq)[1] = "msg"
    /\ wq' = Tail(wq)
    /\ LET m == Head(wq)[2]
           to == {txs[j] : j \in 1..Len(txs)}
       IN  /\ chan' = [s \in Subs |-> IF s \in to THEN sent_to(s, m) ELSE chan[s]]
           /\ txs' = SelectSeq(txs, LAMBDA s : try_send(s, m) # "Closed")
           /\ cache' = Append(cache, m)
    /\ UNCHANGED <<wpc, got, sub, nmsg>>

\* a subscriber takes the next message from its channel (routes.rs: rx.recv())
SubRecv(s) ==
    /\ UNCHANGED <<poolVars, regVars, connVars, pageVars, sqlVars, pwVars>>
    /\ sub[s] = "subscribing"
    /\ chan[s] # <<>>
    /\ got' = [got EXCEPT ![s] = Append(got[s], Head(chan[s]))]
    /\ chan' = [chan EXCEPT ![s] = Tail(chan[s])]
    /\ UNCHANGED <<wq, wpc, cache, txs, sub, nmsg>>

\* a subscriber goes away: its receiver is dropped with what it still held
SubClose(s) ==
    /\ UNCHANGED <<poolVars, regVars, connVars, pageVars, sqlVars, pwVars>>
    /\ sub[s] = "subscribing"
    /\ sub' = [sub EXCEPT ![s] = "closed"]
    /\ chan' = [chan EXCEPT ![s] = <<>>]
    /\ UNCHANGED <<wq, wpc, cache, txs, got, nmsg>>

NextBus ==
    \/ Broadcast
    \/ WorkerSubscribe
    \/ WorkerReplay
    \/ WorkerBroadcast
    \/ \E s \in Subs :
        \/ Subscribe(s)
        \/ SubRecv(s)
        \/ SubClose(s)

(***************************************************************************)
(* db::paginated_query of a Select (db.rs): the user's query is wrapped    *)
(* into a CTE with the filters as its WHERE clause, then run once under    *)
(* LIMIT/OFFSET and once under a row count. The texts are modelled by what *)
(* the claims are about: the placeholders of the filter clauses, the bound *)
(* parameters, the lengths of the prefixes and the rows that come back.    *)
(***************************************************************************)
\* FilterOp, one of each kind: Eq for the comparisons, Like for the two LIKEs
FilterOps == {"eq", "like", "null", "not_null"}

\* Filter::uses_param
uses_param(op) == op \notin {"null", "not_null"}

\* Filter::where_clause(param_idx): (uses a parameter, the placeholder in its
\* clause, 0 for none)
where_clause(op, param_idx) ==
    IF uses_param(op) THEN <<TRUE, param_idx + 1>> ELSE <<FALSE, 0>>

\* filters.iter().scan(0, |i, f| ...): the clauses' placeholders in filter order
RECURSIVE scan_where(_, _)
scan_where(fs, i) ==
    IF fs = <<>> THEN <<>>
    ELSE LET wc == where_clause(Head(fs), i)
         IN  <<wc[2]>> \o scan_where(Tail(fs), IF wc[1] THEN i + 1 ELSE i)

\* filter_params: the value of filter j, written <<"filter", j>>, for the filters
\* that use a parameter
RECURSIVE filter_params(_, _)
filter_params(fs, j) ==
    IF j > Len(fs) THEN <<>>
    ELSE (IF uses_param(fs[j]) THEN <<<<"filter", j>>>> ELSE <<>>)
         \o filter_params(fs, j + 1)

\* params.chain(filter_params): the user's values, then the filters'
all_params(n, fs) == [i \in 1..n |-> <<"user", i>>] \o filter_params(fs, 1)

\* stmt.params().len(): the server counts the parameters of a statement up to
\* its highest placeholder; the user's query uses $1..$n
stmt_params(n, idx) ==
    LET used == {n} \cup {idx[j] : j \in 1..Len(idx)}
    IN  CHOOSE m \in used : \A k \in used : k <= m

\* the characters of column names: one byte, and two bytes in UTF-8
ColChars == {"a", "e_acute"}
utf8_len(c) == IF c = "e_acute" THEN 2 ELSE 1

\* the lists of column names a statement may have, each name one character
ColumnLists == UNION {[1..n -> ColChars] : n \in 1..MaxCols}

\* "WITH q(" and ") AS (\n"
CteOpenLen == 7
CteCloseLen == 7
\* the text in front of base_query in page_query and in count_query
PagePrefixLen == 16
CountPrefixLen == 23

RECURSIVE SumSeq(_)
SumSeq(q) == IF q = <<>> THEN 0 ELSE Head(q) + SumSeq(Tail(q))

\* filter_prefix measured in bytes or in characters: "WITH q(", the names as
\* "i.name" (quote, index digit, dot, name, quote) joined by ", ", ") AS (\n"
filter_prefix(cols, in_bytes) ==
    CteOpenLen
        + SumSeq([i \in 1..Len(cols) |-> 4 + (IF in_bytes THEN utf8_len(cols[i]) ELSE 1)])
        + 2 * (Len(cols) - 1) + CteCloseLen

\* filter_prefix.len(): the length of a String is its length in bytes
filter_prefix_len(cols) == filter_prefix(cols, TRUE)

\* the number of characters of filter_prefix
filter_prefix_chars(cols) == filter_prefix(cols, FALSE)

\* a u32 written as its two 16-bit halves <<high, low>>: the i32 v cast `as u32`
as_u32(v) == <<(v \div (2 ^ 16)) % (2 ^ 16), v % (2 ^ 16)>>

\* PgError::offset_position: pos becomes (pos as i32 + offset_by) as u32
offset_position(pos, offset_by) == as_u32(pos + offset_by)

\* page_query_offset
page_query_offset(ps) == IF ps < 0 THEN 0 ELSE 0 - PagePrefixLen

\* let offset = (page - 1) * limit, in usize without overflow checks: a negative
\* value n stands for the usize 2^64 + n that the wrapped subtraction leaves
offset(pg, limit) == (pg - 1) * limit

\* the rows of T that LIMIT limit OFFSET off lets through (none for an offset
\* above every T, as a wrapped one is)
limit_offset(T, limit, off) ==
    LET rest == IF off < 0 THEN 0 ELSE IF T > off THEN T - off ELSE 0
    IN  IF rest < limit THEN rest ELSE limit

\* the rows the page query returns: all of them when page_size < 0
page_rows(T, ps, pg) == IF ps < 0 THEN T ELSE limit_offset(T, ps, offset(pg, ps))

\* a division that rounds down
div_floor(a, b) == a \div b

\* usize::div_ceil
div_ceil(a, b) == (a + b - 1) \div b

NoResult ==
    [type |-> "none", page_count |-> 0, total_count |-> 0, total_pages |-> 0,
     raised |-> "none", at |-> 0, position |-> as_u32(0)]

TypeOKPage ==
    /\ ppc \in {"idle", "queries", "done"}
    /\ user_params \in 0..MaxParams
    /\ filters \in Seq(FilterOps) /\ Len(filters) <= MaxFilters
    /\ page \in 0..MaxPage
    /\ page_size \in -1..MaxPageSize
    /\ columns \in ColumnLists
    /\ where_idx \in Seq(0..MaxFilters) /\ Len(where_idx) = Len(filters)
    /\ params \in Seq({"user", "filter"} \X (1..(MaxParams + MaxFilters)))
    /\ query_result \in [type : {"none", "select", "params_error", "pg_error", "panic",
                           "panic_overflow"},
                   page_count : 0..MaxRows, total_count : 0..MaxRows,
                   total_pages : 0..MaxRows, raised : {"none", "page", "count"},
                   at : 0..MaxQueryLen,
                   position : (0..(2 ^ 16 - 1)) \X (0..(2 ^ 16 - 1))]

\* no call yet
InitPage ==
    /\ ppc = "idle"
    /\ user_params = 0
    /\ filters = <<>>
    /\ page = 1
    /\ page_size = -1
    /\ columns = <<"a">>
    /\ where_idx = <<>>
    /\ params = <<>>
    /\ query_result = NoResult

\* paginated_query up to prepare_params of the filtered query: inner_stmt gives
\* the columns, the filter clauses get their placeholders, the parameter list is
\* put together, and prepare_params bails when the statement does not have as
\* many parameters as the list has values
PaginatedQuery ==
    /\ UNCHANGED <<poolVars, regVars, connVars, busVars, sqlVars, pwVars>>
    /\ ppc = "idle"
    /\ \E n \in 0..MaxParams, fs \in UNION {[1..k -> FilterOps] : k \in 0..MaxFilters},
          pg \in 0..MaxPage, ps \in -1..MaxPageSize, cols \in ColumnLists :
        /\ user_params' = n
        /\ filters' = fs
        /\ page' = pg
        /\ page_size' = ps
        /\ columns' = cols
        /\ where_idx' = scan_where(fs, 0)
        /\ params' = all_params(n, fs)
        /\ IF stmt_params(n, scan_where(fs, 0)) # Len(all_params(n, fs))
           THEN ppc' = "done" /\ query_result' = [NoResult EXCEPT !.type = "params_error"]
           ELSE ppc' = "queries" /\ query_result' = NoResult

\* `(page - 1) * limit` with page = 0 in a build with overflow checks: the
\* subtraction panics before a query is sent (a build without them goes on with
\* the wrapped offset)
OffsetPanic ==
    /\ UNCHANGED <<poolVars, regVars, connVars, busVars, sqlVars, pwVars>>
    /\ ppc = "queries"
    /\ page_size >= 0
    /\ page = 0
    /\ query_result' = [NoResult EXCEPT !.type = "panic_overflow"]
    /\ ppc' = "done"
    /\ UNCHANGED <<user_params, filters, page, page_size, columns, where_idx, params>>

\* both queries succeed on a query_result of T rows: page_count, total_count and
\* total_pages (div_ceil panics on page_size = 0)
QueriesOk ==
    /\ UNCHANGED <<poolVars, regVars, connVars, busVars, sqlVars, pwVars>>
    /\ ppc = "queries"
    /\ \E T \in 0..MaxRows :
        query_result' = IF page_size = 0
                  THEN [NoResult EXCEPT !.type = "panic"]
                  ELSE [NoResult EXCEPT
                          !.type = "select",
                          !.page_count = page_rows(T, page_size, page),
                          !.total_count = T,
                          !.total_pages = IF page_size < 0 THEN 1
                                          ELSE div_ceil(T, page_size)]
    /\ ppc' = "done"
    /\ UNCHANGED <<user_params, filters, page, page_size, columns, where_idx, params>>

\* the server rejects the page query or the count query with an error whose
\* position is character x of the user's query as it stands in the wrapped
\* query; the position is offset before the error is returned
QueryError ==
    /\ UNCHANGED <<poolVars, regVars, connVars, busVars, sqlVars, pwVars>>
    /\ ppc = "queries"
    /\ \E q \in {"page", "count"}, x \in 1..MaxQueryLen :
        LET wrapper == IF q = "count" THEN CountPrefixLen
                       ELSE IF page_size < 0 THEN 0 ELSE PagePrefixLen
            P == wrapper + filter_prefix_chars(columns) + x
            offset_by == IF q = "count"
                         THEN 0 - CountPrefixLen - filter_prefix_len(columns)
                         ELSE page_query_offset(page_size) - filter_prefix_len(columns)
        IN  query_result' = [NoResult EXCEPT !.type = "pg_error", !.raised = q, !.at = x,
                                       !.position = offset_position(P, offset_by)]
    /\ ppc' = "done"
    /\ UNCHANGED <<user_params, filters, page, page_size, columns, where_idx, params>>

NextPage ==
    \/ PaginatedQuery
    \/ OffsetPanic
    \/ QueriesOk
    \/ QueryError

(***************************************************************************)
(* parse_query and query_type (db.rs). A text is a sequence of characters; *)
(* a run of letters is written as one element, the word it spells.         *)
(***************************************************************************)
\* what str::trim takes for whitespace, as far as the texts here go
Whitespace == {" ", "\n", "\t"}
\* the words: keywords of the three classes, one in capitals, and another word
Words == {"explain", "insert", "INSERT", "create", "x"}
SqlChars == Whitespace \cup {"-", "/", "*", ";"} \cup Words
Texts == UNION {[1..n -> SqlChars] : n \in 0..MaxLen}

\* parse_query does not return: the loop over a block comment never ends
Hangs == <<"hangs">>

\* a.push(..) in front of what the rest of the scan gives
cat(a, r) == IF r = Hangs THEN Hangs ELSE a \o r

\* a character that opened no comment is dropped
lone_dropped(c) == <<>>

\* acc.push('-') and acc.push('/'): the character did not open a comment
lone(c) == <<c>>

\* "we're in a line comment, trim until newline": what follows the newline
RECURSIVE skip_line(_)
skip_line(q) ==
    IF q = <<>> THEN <<>>
    ELSE IF Head(q) = "\n" THEN Tail(q) ELSE skip_line(Tail(q))

\* "we're in a block comment, trim until close delimiter": what follows the
\* close delimiter; the loop has no exit when the characters run out
RECURSIVE skip_block(_)
skip_block(q) ==
    IF q = <<>> THEN Hangs
    ELSE IF Head(q) = "*" /\ Len(q) >= 2 /\ q[2] = "/" THEN Tail(Tail(q))
    ELSE skip_block(Tail(q))

\* the comment-removing loop of parse_query
RECURSIVE strip_comments(_)
strip_comments(q) ==
    IF q = <<>> THEN <<>>
    ELSE IF Head(q) = "-"
    THEN IF Len(q) >= 2 /\ q[2] = "-"
         THEN strip_comments(skip_line(Tail(Tail(q))))
         ELSE cat(lone("-"), strip_comments(Tail(q)))
    ELSE IF Head(q) = "/"
    THEN IF Len(q) >= 2 /\ q[2] = "*"
         THEN (IF skip_block(Tail(Tail(q))) = Hangs THEN Hangs
               ELSE strip_comments(skip_block(Tail(Tail(q)))))
         ELSE cat(lone("/"), strip_comments(Tail(q)))
    ELSE cat(<<Head(q)>>, strip_comments(Tail(q)))

\* str::trim
RECURSIVE trim_start(_)
trim_start(q) ==
    IF q # <<>> /\ Head(q) \in Whitespace THEN trim_start(Tail(q)) ELSE q
RECURSIVE trim_end(_)
trim_end(q) ==
    IF q # <<>> /\ q[Len(q)] \in Whitespace THEN trim_end(SubSeq(q, 1, Len(q) - 1)) ELSE q
trim(q) == trim_end(trim_start(q))

\* query.split_once(';'): the part before the first ';', all of it without one
RECURSIVE before_first(_, _)
before_first(q, c) ==
    IF q = <<>> \/ Head(q) = c THEN <<>> ELSE <<Head(q)>> \o before_first(Tail(q), c)

\* parse_query
parse_query(q) ==
    IF strip_comments(q) = Hangs THEN Hangs
    ELSE before_first(trim(strip_comments(q)), ";")

\* str::to_ascii_lowercase
to_ascii_lowercase(q) == [i \in 1..Len(q) |-> IF q[i] = "INSERT" THEN "insert" ELSE q[i]]

\* str::split on a set of characters: the pieces between them, empty ones too
RECURSIVE split(_, _)
split(q, seps) ==
    IF \A i \in 1..Len(q) : q[i] \notin seps THEN <<q>>
    ELSE LET i == CHOOSE i \in 1..Len(q) :
                    q[i] \in seps /\ \A j \in 1..(i - 1) : q[j] \notin seps
         IN  <<SubSeq(q, 1, i - 1)>> \o split(SubSeq(q, i + 1, Len(q)), seps)

\* the match of query_type on one token
token_class(tok) ==
    IF tok = <<"explain">> THEN "Explain"
    ELSE IF tok = <<"insert">> THEN "ModifyData"
    ELSE IF tok = <<"create">> THEN "ModifyStructure"
    ELSE "none"

\* `for token in tokens`: the class of the first token that has one, else Select
RECURSIVE first_class(_)
first_class(toks) ==
    IF toks = <<>> THEN "Select"
    ELSE IF token_class(Head(toks)) # "none" THEN token_class(Head(toks))
    ELSE first_class(Tail(toks))

\* query_type: query.to_ascii_lowercase().split(&[' ', '\n'])
query_type(q) == first_class(split(to_ascii_lowercase(q), {" ", "\n"}))

TypeOKSql ==
    /\ spc \in {"idle", "called", "parsed", "typed"}
    /\ sql \in Texts
    /\ parsed \in Texts \cup {Hangs}
    /\ qtype \in {"none", "Select", "ModifyData", "ModifyStructure", "Explain"}

\* no text yet
InitSql ==
    /\ spc = "idle"
    /\ sql = <<>>
    /\ parsed = <<>>
    /\ qtype = "none"

\* paginated_query is called with a text
QueryCall ==
    /\ UNCHANGED <<poolVars, regVars, connVars, busVars, pageVars, pwVars>>
    /\ spc = "idle"
    /\ \E text \in Texts : sql' = text
    /\ spc' = "called"
    /\ UNCHANGED <<parsed, qtype>>

\* let raw_query = parse_query(raw_query)
ParseQuery ==
    /\ UNCHANGED <<poolVars, regVars, connVars, busVars, pageVars, pwVars>>
    /\ spc = "called"
    /\ parsed' = parse_query(sql)
    /\ spc' = "parsed"
    /\ UNCHANGED <<sql, qtype>>

\* let query_type = query_type(&raw_query), once parse_query has returned
QueryType ==
    /\ UNCHANGED <<poolVars, regVars, connVars, busVars, pageVars, pwVars>>
    /\ spc = "parsed"
    /\ parsed # Hangs
    /\ qtype' = query_type(parsed)
    /\ spc' = "typed"
    /\ UNCHANGED <<sql, parsed>>

NextSql ==
    \/ QueryCall
    \/ ParseQuery
    \/ QueryType

(***************************************************************************)
(* Connection::load_password with a password_file (persistence.rs): the    *)
(* script runs as a child process; a spawned task reads its stderr and     *)
(* broadcasts what it reads, while load_password waits for the child for   *)
(* at most ten seconds.                                                    *)
(***************************************************************************)
TypeOKPw ==
    /\ script \in {"running", "exited"}
    /\ stderr_written \in 0..MaxBytes
    /\ stderr_pipe \in 0..MaxBytes
    /\ lpc \in {"wait", "timeout", "done"}
    /\ epc \in {"read", "ended"}
    /\ broadcasts \in 0..MaxBroadcasts
    /\ sev \in {"spawn", "write", "exit", "wait_done", "wait_timeout", "read",
                "read_eof", "read_err"}

\* the child is spawned with its stdout and stderr piped and the two tasks started
InitPw ==
    /\ script = "running"
    /\ stderr_written = 0
    /\ stderr_pipe = 0
    /\ lpc = "wait"
    /\ epc = "read"
    /\ broadcasts = 0
    /\ sev = "spawn"

\* the script writes k bytes to its stderr
ScriptWrite ==
    /\ UNCHANGED <<poolVars, regVars, connVars, busVars, pageVars, sqlVars>>
    /\ script = "running"
    /\ \E k \in 1..(MaxBytes - stderr_written) :
        /\ stderr_written' = stderr_written + k
        /\ stderr_pipe' = stderr_pipe + k
    /\ sev' = "write"
    /\ UNCHANGED <<script, lpc, epc, broadcasts>>

\* the script exits: the write end of its stderr is closed
ScriptExit ==
    /\ UNCHANGED <<poolVars, regVars, connVars, busVars, pageVars, sqlVars>>
    /\ script = "running"
    /\ script' = "exited"
    /\ sev' = "exit"
    /\ UNCHANGED <<stderr_written, stderr_pipe, lpc, epc, broadcasts>>

\* load_password: cmd.wait() returns within the timeout
WaitDone ==
    /\ UNCHANGED <<poolVars, regVars, connVars, busVars, pageVars, sqlVars>>
    /\ lpc = "wait"
    /\ script = "exited"
    /\ lpc' = "done"
    /\ sev' = "wait_done"
    /\ UNCHANGED <<script, stderr_written, stderr_pipe, epc, broadcasts>>

\* load_password: the timeout passes first; it bails, and the dropped child is
\* killed (kill_on_drop)
WaitTimeout ==
    /\ UNCHANGED <<poolVars, regVars, connVars, busVars, pageVars, sqlVars>>
    /\ lpc = "wait"
    /\ lpc' = "timeout"
    /\ script' = "exited"
    /\ sev' = "wait_timeout"
    /\ UNCHANGED <<stderr_written, stderr_pipe, epc, broadcasts>>

\* the stderr task: read returns Ok(n) with n of the bytes in the pipe, at most
\* the buffer's length; the bytes are broadcast and the loop goes on
StderrRead ==
    /\ UNCHANGED <<poolVars, regVars, connVars, busVars, pageVars, sqlVars>>
    /\ epc = "read"
    /\ stderr_pipe > 0
    /\ \E n \in 1..BufLen :
        /\ n <= stderr_pipe
        /\ stderr_pipe' = stderr_pipe - n
    /\ broadcasts' = broadcasts + 1
    /\ sev' = "read"
    /\ UNCHANGED <<script, stderr_written, lpc, epc>>

\* the stderr task: the pipe is empty and its write end closed: read returns
\* Ok(0), which `while let Ok(n)` takes like any other Ok: the empty text is
\* broadcast and the loop goes on
StderrReadEof ==
    /\ UNCHANGED <<poolVars, regVars, connVars, busVars, pageVars, sqlVars>>
    /\ epc = "read"
    /\ stderr_pipe = 0
    /\ script = "exited"
    /\ broadcasts < MaxBroadcasts
    /\ broadcasts' = broadcasts + 1
    /\ sev' = "read_eof"
    /\ UNCHANGED <<script, stderr_written, stderr_pipe, lpc, epc>>

\* the stderr task: read returns Err: the loop and the task end
StderrReadErr ==
    /\ UNCHANGED <<poolVars, regVars, connVars, busVars, pageVars, sqlVars>>
    /\ epc = "read"
    /\ epc' = "ended"
    /\ sev' = "read_err"
    /\ UNCHANGED <<script, stderr_written, stderr_pipe, lpc, broadcasts>>

NextPw ==
    \/ ScriptWrite
    \/ ScriptExit
    \/ WaitDone
    \/ WaitTimeout
    \/ StderrRead
    \/ StderrReadEof
    \/ StderrReadErr

Init == InitPool /\ InitReg /\ InitConn /\ InitBus /\ InitPage /\ InitSql /\ InitPw

\* State::get_conn calls alone, the configuration left as loaded
NextGetConn ==
    \E t \in Tasks :
        \/ GetConnFailed(t)
        \/ GetConnActive(t)
        \/ CheckoutResume(t)
        \/ CheckoutGiveUp(t)
        \/ GetConnPending(t)
        \/ GetConnAbsent(t)
        \/ CreatorLookup(t)
        \/ CreatorPasswordFailed(t)
        \/ CreatorPoolFailed(t)
        \/ CreatorPoolError(t)
        \/ CreatorPoolActive(t)
        \/ CreatorNotify(t)
        \/ DropConn(t)

\* the registry, its tasks and update_config
Spec == Init /\ [][NextReg]_vars
\* the registry under get_conn calls only
SpecGetConn == Init /\ [][NextGetConn]_vars
\* one connection pool on its own: the registry plays no part in it and stays as
\* constructed, with one configuration
InitOnePool == Init /\ config = [c \in Conns |-> "d1"]
SpecPool == InitOnePool /\ [][NextPool]_vars
\* connections on their own, the rest as constructed
SpecConn == InitOnePool /\ [][NextConn]_vars
\* the lifecycle bus on its own, the rest as constructed
\* the runtime runs the background task once its kill receiver has a value
SpecConnFair == SpecConn /\ \A i \in ConnIds : WF_vars(ConnTaskKilled(i))

SpecBus == InitOnePool /\ [][NextBus]_vars
\* paginated_query calls on their own, the rest as constructed
SpecPage == InitOnePool /\ [][NextPage]_vars
\* parse_query and query_type on their own, the rest as constructed
SpecSql == InitOnePool /\ [][NextSql]_vars

SpecPw == InitOnePool /\ [][NextPw]_vars


(***************************************************************************)
(* The pool                                                                *)
(***************************************************************************)

\* C1: whenever the pool is live and no call is under way, the connections in
\* the deque plus the checked-out handles number pool_size, and the deque never
\* holds more than pool_size connections.
C1_AvailablePlusCheckedOut ==
    (live /\ cpc = "idle") =>
        /\ Len(conns) + Len(out) = PoolSize
        /\ Len(conns) <= PoolSize

\* the step is a failed health check of the popped connection
HealthCheckFailed == ev' \in {"hc_fail_dormant", "hc_fail_replaced", "hc_fail_noreplace"}

C11_DormantHoldsNone ==
    ~live => conns = <<>>

\* C12: a live pool between calls has an idle watcher timing it, the watcher's
\* timeout fires only when no ping of a checkout is left unreceived, and the
\* watcher's dormancy empties the deque and clears the notifier.
C12_IdleDormancy ==
    [][/\ (live' /\ cpc' = "idle") => (watcher' # "none" \/ staleFired' > 0)
       /\ (watcher = "listening" /\ watcher' = "fired") => ~pinged
       /\ ev' = "idle_dormant" => (~live' /\ conns' = <<>> /\ watcher' = "none")
    ]_vars

\* C13: at every point of a get_conn call the expiry of the timeout is possible
\* and ends the call with the timeout error, handing out nothing; a handle is
\* handed out only by a step of a call that has not timed out, which returns it.
C13_CheckoutBounded ==
    /\ [](cpc \in {"try", "wait", "watch", "ping"} => ENABLED CheckoutTimeout)
    /\ [][/\ ev' \in {"timeout", "timeout_ping"} =>
                (cpc' = "idle" /\ res' = "err_timeout" /\ out' = out)
          /\ Len(out') > Len(out) =>
                (cpc \in {"try", "ping"} /\ cpc' = "idle" /\ res' = "conn")
       ]_vars

\* every connection is checked out and the next call has timed out waiting
C13_Witness ==
    /\ ev = "timeout" /\ res = "err_timeout" /\ cpc = "idle"
    /\ live /\ conns = <<>> /\ out # <<>>

\* the step is the return of a handle to a live pool
DropToLive == live /\ ev' \in {"drop_push", "drop_spawn", "drop_panic"}

\* C14: the drop of a handle on a live pool adds exactly one connection to the
\* front of the deque: the handle's own if its task is still running, else a
\* fresh one; a connection whose task has exited is never put back.
C14_DropReturnsOne ==
    [][DropToLive =>
        \E i \in 1..Len(out) :
            /\ out' = RemoveAt(out, i)
            /\ conns' = push_front(conns, IF out[i].exited THEN Fresh ELSE out[i])
    ]_vars

\* C15: a reload leaves the checked-out connections with their holders, and a
\* handle that was out when the pool was reloaded adds nothing to the new deque
\* when it is dropped (res = "ok" between calls: the last call was a reload that
\* succeeded and no checkout has been made since).
C15_OldHandlesStayOut ==
    [][/\ ev' \in {"reload_ok", "reload_fail"} => out' = out
       /\ (res = "ok" /\ cpc = "idle" /\ DropToLive) =>
            (conns' = conns /\ Len(conns') = PoolSize)
    ]_vars

\* the running call ends with the checkout-timeout error
TimedOut == cpc # "idle" /\ cpc' = "idle" /\ res' = "err_timeout"

\* C27: a get_conn that ends with the checkout-timeout error on a live pool loses
\* no connection: the deque and the handles hold after the step what they held
\* before it, the connection wait_for_conn had popped included.
C27_TimeoutKeepsConnections ==
    [][(TimedOut /\ live) =>
        Len(conns') + Len(out') =
            Len(conns) + Len(out) + (IF cpc = "ping" THEN 1 ELSE 0)
    ]_vars

\* C28: a call waiting on conn_avail while the deque holds a connection has a
\* wake-up pending, whatever filled the deque, and can take it; the step that
\* fills the deque of a waiting call signals conn_avail.
C28_WaiterWoken ==
    /\ []((cpc = "wait" /\ conns # <<>>) => (conn_avail /\ ENABLED WaiterWoken))
    /\ [][(cpc = "wait" /\ conns = <<>> /\ conns' # <<>>) => conn_avail']_vars

\* a waiting call with the wake-up of a returned connection pending
C28_Witness ==
    /\ cpc = "wait" /\ conn_avail /\ live /\ Len(conns) = 1
    /\ ev \in {"drop_push", "drop_spawn"}

\* C29: when spawn_idle_watcher has completed after a reload or a revival, the
\* pool is live with pool_size connections, its one watcher listens and no
\* watcher from before is left; and no watcher from before makes the pool dormant.
C29_ReloadRestartsWatcher ==
    /\ [](ev = "spawn_idle_watcher" =>
            /\ live /\ Len(conns) = PoolSize
            /\ watcher = "listening" /\ staleFired = 0)
    /\ [][ev' # "stale_dormant"]_vars

\* C30: a checkout that has popped a healthy connection is never held up in its
\* ping of the idle watcher while the watcher, its timeout fired, waits for the
\* pool lock that the checkout holds.
C30_PingNeverBlocks ==
    ~(cpc = "ping" /\ watcher = "fired")

\* the step is wait_for_conn taking a connection that passes its health check
CheckoutPop == cpc = "try" /\ ev' \in {"checkout_ok", "checkout_blocked"}

\* C31: the connection a checkout takes out of the deque is the one pushed last
\* (index 1 is the front, where Drop and spawn_conn push): the deque after the
\* step is the deque before it without its most recent connection.
C31_CheckoutLIFO ==
    [][CheckoutPop => conns' = Tail(conns)]_vars

\* C32: conn_avail is signalled only by a step that holds the pool lock and has
\* placed a connection in the deque; a call starts to wait only on a live pool
\* whose deque it has seen empty, with no message pending; every connection that
\* enters the deque while the call waits leaves a wake-up for it; and the woken
\* call takes the message and runs the checkout again from its start.
C32_ReturnNotMissed ==
    [][/\ (conn_avail' /\ ~conn_avail) =>
            (LockFree /\ Len(conns') = Len(conns) + 1 /\ Len(out') = Len(out) - 1)
       /\ ev' = "wait" => (live /\ conns = <<>> /\ cpc' = "wait" /\ ~conn_avail')
       /\ (cpc = "wait" /\ cpc' = "wait" /\ Len(conns') > Len(conns)) => conn_avail'
       /\ ev' = "woken" => (conn_avail /\ ~conn_avail' /\ cpc' = "try" /\ conns' = conns)
    ]_vars

\* a waiting call has been woken by a returned connection and is about to run the
\* checkout again
C32_Witness ==
    ev = "woken" /\ cpc = "try" /\ live /\ conns # <<>> /\ ~conn_avail

\* C33: a reload that succeeds replaces the deque in one step by pool_size fresh
\* connections, and the first checkout after it (res = "ok": no call since the
\* reload) finds in the deque of the live pool those connections and no other:
\* pool_size of them, none a connection that a handle from before has returned
\* (a returned connection has had its liveness receiver taken by is_live).
C33_ReloadAtomic ==
    [][/\ ev' = "reload_ok" => conns' = init(<<>>)
       /\ (ev' = "get_conn" /\ res = "ok" /\ live) =>
            (Len(conns) = PoolSize /\ \A i \in 1..Len(conns) : conns[i].rx)
    ]_vars

\* C34: a checkout that passes the health check leaves the counter at zero; the
\* counter rises only by one, at a failed health check; the pool turns unstable
\* only at a failure that finds the counter at zero, and the failure that makes
\* the pool dormant finds it unstable, i.e. follows a failure with no passed
\* check since; is_unstable() says whether the counter is above zero.
C34_ConsecutiveFailures ==
    [][/\ CheckoutPop => (failed_health_checks' = 0 /\ ~is_unstable')
       /\ failed_health_checks' > failed_health_checks =>
            (HealthCheckFailed /\ failed_health_checks' = failed_health_checks + 1)
       /\ (~is_unstable /\ is_unstable') => failed_health_checks' = 1
       /\ ev' = "hc_fail_dormant" => is_unstable
       /\ (~is_unstable /\ HealthCheckFailed) => (live' /\ ev' # "hc_fail_dormant")
    ]_vars

\* a health check has failed after a checkout that passed: one handle is out,
\* the pool is live and unstable with the counter at one
C34_Witness ==
    /\ ev \in {"hc_fail_replaced", "hc_fail_noreplace"}
    /\ out # <<>> /\ live /\ failed_health_checks = 1 /\ is_unstable

\* C35: every drop of a handle on a dormant pool is a discard: the handle's
\* connection is gone and the pool is as it was: live false, the deque unchanged
\* (empty if it was empty), the failure counter, the watcher and the running call
\* unchanged, nothing spawned and conn_avail not signalled.
C35_DormantDropDiscards ==
    [][(~live /\ Len(out') < Len(out)) =>
            /\ ev' = "drop_discard"
            /\ \E i \in 1..Len(out) : out' = RemoveAt(out, i)
            /\ UNCHANGED <<live, conns, failed_health_checks, conn_avail, watcher,
                           pinged, staleFired, cpc, inhand, res>>
    ]_vars

\* a handle has just been dropped on a dormant pool
C35_Witness ==
    ev = "drop_discard" /\ ~live /\ conns = <<>> /\ ~conn_avail

(***************************************************************************)
(* The registry                                                            *)
(***************************************************************************)

\* the tasks performing pool creation for a key
Creators(k) == {t \in Tasks : rpc[t] \in {"creating", "password"} /\ rkey[t] = k}

C3_WokenSeesResolved ==
    \A w \in Tasks :
        (rpc[w] = "retry" /\ waitOn[w] # 0) => pools[rkey[w]] # Pending(waitOn[w])

\* a woken waiter about to look at the entry its creator installed
C3_Witness ==
    \E w \in Tasks :
        /\ rpc[w] = "retry"
        /\ waitOn[w] # 0
        /\ pools[rkey[w]].st \in {"Active", "Failed"}
        /\ pools[rkey[w]].id = waitOn[w]

\* C4: when the password load fails, Failed is installed and every task waiting
\* on the Pending entry's notifier is woken: no task is left waiting on the
\* notifier of a creation that has installed "Failed to load password".
C4_PasswordFailureWakesWaiters ==
    \A w \in Tasks :
        ~(/\ rpc[w] = "waiting"
          /\ pools[rkey[w]] = Failed(waitOn[w], "Failed to load password"))

\* C5: a creator whose Pending entry was retired while it worked leaves the
\* registry as it is when it completes.
C5_RetiredCreatorDiscards ==
    [][\A t \in Tasks :
        (/\ rpc[t] = "password"
         /\ pools[rkey[t]] # Pending(myId[t])
         /\ rpc'[t] # "password") => pools' = pools
    ]_vars

\* C6: no task holds the registry mutex while it waits inside a pool operation.
C6_NoRegistryLockInsidePool ==
    \A t \in Tasks : rpc[t] = "checkout" => rlock # t

\* C7: the pool registered under a key is connected to the database of the key.
C7_PoolServesKeyDatabase ==
    \A k \in Keys : pools[k].st = "Active" => pools[k].db = k[2]

\* task t has, in this step, looked up key k in get_conn
LookedUp(t, k) ==
    /\ rpc[t] \in {"idle", "retry"}
    /\ rpc[t] = "retry" => rkey[t] = k
    /\ \/ rpc'[t] \in {"waiting", "creating", "checkout", "using"} /\ rkey'[t] = k
       \/ /\ rpc'[t] = "idle"
          /\ rret'[1] = t /\ rret'[2] = k
          /\ rret' # rret \/ rpc[t] = "retry"

\* C8: a get_conn that finds Failed(msg) under its key returns msg, starts no
\* creation and leaves the registry as it is, and a Failed(msg) entry stays
\* Failed(msg) until update_config removes it.
C8_FailedStaysFailed ==
    [][/\ \A t \in Tasks, k \in Keys :
            (LookedUp(t, k) /\ pools[k].st = "Failed") =>
                /\ rpc'[t] = "idle"
                /\ rret' = <<t, k, pools[k].msg>>
                /\ pools' = pools
                /\ nextId' = nextId
                /\ myId' = myId
       /\ \A k \in Keys :
            pools[k].st = "Failed" =>
                \/ pools'[k].st = "Failed" /\ pools'[k].msg = pools[k].msg
                \/ pools'[k] = Absent /\ rpc' = rpc
    ]_vars

\* the step is an UpdateConfig: no task moves
ConfigUpdated == rpc' = rpc /\ rret' = rret

\* C19: after update_config no registry key names a connection that is absent
\* from the new configuration, and every pool kept is connected as the new
\* configuration of its connection says.
C19_RegistryFollowsConfig ==
    [][ConfigUpdated =>
        \A k \in Keys :
            /\ config'[k[1]] = "absent" => pools'[k] = Absent
            /\ pools'[k].st = "Active" => pools'[k].db = config'[k[1]]
    ]_vars

\* the task that inserted Pending entry n and has not returned from that call
CreatorOf(n) == {t \in Tasks : myId[t] = n /\ rpc[t] \in {"creating", "password", "notify"}}

\* C26: a Pending entry and a task waiting on a Pending entry's notifier always
\* have the creator still at work behind them: no exit path of the creator leaves
\* its Pending entry in the registry or a waiter unnotified.
C26_PendingHasCreator ==
    /\ \A k \in Keys : pools[k].st = "Pending" => CreatorOf(pools[k].id) # {}
    /\ \A w \in Tasks : rpc[w] = "waiting" => CreatorOf(waitOn[w]) # {}

(***************************************************************************)
(* db::Connection                                                          *)
(***************************************************************************)

\* C16: once the background task has exited, every is_live() call returns false,
\* the first one included, and a task that has exited stays exited.
C16_ExitedIsNotLive ==
    [][\A i \in ConnIds :
        /\ (cev' = <<"is_live", i>> /\ cn[i].exited) => is_live_ret'[i] = "false"
        /\ cn[i].exited => cn'[i].exited
    ]_vars

\* C17: while the background task runs and no kill has been signalled, every
\* is_live() call returns true.
C17_RunningIsLive ==
    [][\A i \in ConnIds :
        (cev' = <<"is_live", i>> /\ ~cn[i].exited /\ kill_signals[i] = 0) =>
            is_live_ret'[i] = "true"
    ]_vars

\* C18 (as claimed): once the connection is dropped, after any number of kill()
\* calls, exactly one termination signal has been sent to the background task,
\* and a kill() after the first changes nothing.
C18_KillIdempotent_AsClaimed ==
    /\ [](\A i \in ConnIds : dropped[i] => kill_signals[i] = 1)
    /\ [][\A i \in ConnIds :
            (cev' = <<"kill", i>> /\ ~cn[i].tx) =>
                (cn'[i] = cn[i] /\ kill_signals'[i] = kill_signals[i])
       ]_vars

\* C18 (amended): at most one termination signal is ever sent; once the connection
\* is dropped exactly one has been sent unless the task had already exited through
\* a connection error before the first kill, in which case none was; a kill()
\* after the first changes nothing.
C18_KillIdempotent ==
    /\ [](\A i \in ConnIds :
            /\ kill_signals[i] <= 1
            /\ dropped[i] =>
                /\ ~cn[i].tx
                /\ kill_signals[i] = 1 \/ (kill_signals[i] = 0 /\ cause[i] = "wire"))
    /\ [][\A i \in ConnIds :
            (cev' = <<"kill", i>> /\ ~cn[i].tx) =>
                (cn'[i] = cn[i] /\ kill_signals'[i] = kill_signals[i])
       ]_vars

\* a dropped connection whose task exited on the one kill signal
C18_Witness ==
    \E i \in ConnIds :
        dropped[i] /\ kill_signals[i] = 1 /\ cause[i] = "kill" /\ cn[i].exited

\* C36: the background task exits once, on a wire error or on a kill signal that
\* was sent, and having exited (its one send on live_tx made) it stays exited;
\* and once kill() or the drop has taken the kill sender, the task is eventually
\* found to have exited.
C36_TaskTerminates ==
    /\ [][\A i \in ConnIds :
            /\ (~cn[i].exited /\ cn'[i].exited) =>
                    /\ cause[i] = "none"
                    /\ \/ cause'[i] = "wire"
                       \/ cause'[i] = "kill" /\ kill_signals[i] > 0
            /\ cn[i].exited => (cn'[i].exited /\ cause'[i] = cause[i])
            /\ cause'[i] # "none" => cn'[i].exited
        ]_vars
    /\ \A i \in ConnIds : (~cn[i].tx) ~> cn[i].exited

\* one task has exited on the kill signal of a dropped connection, another on
\* a wire error
C36_Witness ==
    \E i, j \in ConnIds :
        /\ cn[i].exited /\ cause[i] = "kill" /\ dropped[i]
        /\ cn[j].exited /\ cause[j] = "wire"

(***************************************************************************)
(* The lifecycle bus                                                       *)
(***************************************************************************)

\* the worker holds the sender of subscriber s
Subscribed(s) == \E j \in 1..Len(txs) : txs[j] = s

\* a sequence of messages in broadcast order
InBroadcastOrder(q) == \A i, j \in 1..Len(q) : i < j => q[i] < q[j]

\* C20: when the worker completes the replay for a new subscriber, the subscriber
\* has been sent every message broadcast so far, in broadcast order (what it has
\* received followed by what waits in its channel is the whole cache), and every
\* subscriber's sequence is in broadcast order at all times.
C20_ReplayInOrder ==
    /\ [](\A s \in Subs : InBroadcastOrder(got[s] \o chan[s]))
    /\ [][\A s \in Subs :
            (~Subscribed(s) /\ Subscribed(s)' /\ sub'[s] = "subscribing") =>
                got'[s] \o chan'[s] = cache'
       ]_vars

(***************************************************************************)
(* db::paginated_query                                                     *)
(***************************************************************************)

\* filter j is the k-th filter that uses a parameter: k
ParamRank(fs, j) == Cardinality({i \in 1..j : uses_param(fs[i])})

\* C21: in the wrapped Select the k-th parameter-using filter has placeholder
\* $(user_param_count + k), where its value stands in the bound parameter list;
\* null and not_null filters have no placeholder and no value in the list.
C21_FilterPlaceholders ==
    ppc # "idle" =>
        \A j \in 1..Len(filters) :
            IF uses_param(filters[j])
            THEN /\ where_idx[j] = user_params + ParamRank(filters, j)
                 /\ params[where_idx[j]] = <<"filter", j>>
            ELSE /\ where_idx[j] = 0
                 /\ \A i \in 1..Len(params) : params[i] # <<"filter", j>>

\* ceil(T / p): the least number of pages of p rows that hold T rows
CeilDiv(T, p) == CHOOSE n \in 0..T : n * p >= T /\ (n > 0 => (n - 1) * p < T)

RECURSIVE SumPages(_, _, _)
\* the page_count values of pages 1..n added up
SumPages(T, p, n) == IF n = 0 THEN 0 ELSE page_rows(T, p, n) + SumPages(T, p, n - 1)

\* C22: a Select result over T rows with page_size p > 0 has total_pages =
\* ceil(T / p) and page_count <= p, and the page_count of pages 1..total_pages
\* add up to T; with page_size = -1 it has total_pages = 1 and page_count = T.
C22_Pagination ==
    query_result.type = "select" =>
        LET T == query_result.total_count
        IN  IF page_size > 0
            THEN /\ query_result.total_pages = CeilDiv(T, page_size)
                 /\ query_result.page_count <= page_size
                 /\ query_result.page_count = page_rows(T, page_size, page)
                 /\ SumPages(T, page_size, query_result.total_pages) = T
            ELSE /\ query_result.total_pages = 1
                 /\ query_result.page_count = T

\* the second and last page of four rows in pages of three
C22_Witness ==
    /\ query_result.type = "select"
    /\ query_result.total_count = 4 /\ page_size = 3 /\ page = 2
    /\ query_result.page_count = 1 /\ query_result.total_pages = 2

\* C23: the position surfaced for a server error of the page query or the count
\* query is the error's position in the user's query (the server's position less
\* the characters in front of the user's query), not negative and not wrapped:
\* as a u32, its high half is 0 and its low half is that position.
C23_ErrorPosition ==
    query_result.type = "pg_error" => query_result.position = <<0, query_result.at>>

(***************************************************************************)
(* parse_query and query_type                                              *)
(***************************************************************************)

\* C24: query_type returns the class of the first keyword among the tokens that
\* whitespace of any kind separates, letter case set aside; Select without one.
C24_QueryTypeByTokens ==
    spc = "typed" =>
        qtype = first_class(split(to_ascii_lowercase(parsed), Whitespace))

\* a text with neither `--` nor `/*` in it
NoComment(q) ==
    \A i \in 1..(Len(q) - 1) :
        ~(q[i] = "-" /\ q[i + 1] = "-") /\ ~(q[i] = "/" /\ q[i + 1] = "*")

\* C25: for a text without comment, comment stripping gives the text trimmed and
\* otherwise unchanged, and parse_query returns the part of it before its first
\* `;`.
C25_NoCommentRoundTrip ==
    (spc \in {"parsed", "typed"} /\ NoComment(sql)) =>
        /\ trim(strip_comments(sql)) = trim(sql)
        /\ parsed = before_first(trim(sql), ";")

\* a text that starts with whitespace and has a lone `-` and a `;` in it
C25_Witness ==
    /\ spc = "parsed" /\ NoComment(sql)
    /\ sql # <<>> /\ sql[1] \in Whitespace
    /\ \E i, j \in 1..Len(sql) : i < j /\ sql[i] = "-" /\ sql[j] = ";"
    /\ parsed # <<>>

\* the call of parse_query has been made
Parsed == spc \in {"parsed", "typed"}

\* C37: parse_query returns on every text: once it has been called on sql, a
\* text has come back.
C37_ParseQueryTerminates ==
    Parsed => parsed # Hangs

\* C38: parse_query applied to a text it has returned gives that text again.
C38_ParseQueryIdempotent ==
    (Parsed /\ parsed # Hangs) => parse_query(parsed) = parsed

\* C40: a call on a Select that got as far as its two queries had its arithmetic
\* defined: it did not panic, neither in `page - 1` nor in the division by
\* page_size, and the OFFSET it sent is (page - 1) * page_size, not a wrapped value.
C40_PaginationDefined ==
    (ppc = "done" /\ query_result.type # "params_error") =>
        /\ query_result.type \notin {"panic", "panic_overflow"}
        /\ page_size >= 0 => offset(page, page_size) >= 0

(***************************************************************************)
(* load_password                                                           *)
(***************************************************************************)

\* C39: every broadcast of the stderr task carries bytes it has just read from
\* the pipe, so that the task broadcasts no more often than the script wrote
\* bytes; and the read that finds the pipe empty and closed ends the task.
C39_StderrTaskEnds ==
    /\ [](broadcasts <= stderr_written)
    /\ [][/\ broadcasts' > broadcasts => stderr_pipe' < stderr_pipe
          /\ sev' = "read_eof" => epc' = "ended"
       ]_vars
====
